---- MODULE Spec2Model ----
(***************************************************************************)
(* A model of pants' bootstrap configuration code,                         *)
(* src/python/pants/init/options_initializer.py:                           *)
(*   - BuildConfigInitializer: the class-level BuildConfiguration cache    *)
(*     (get / reset / __init__ / setup);                                   *)
(*   - OptionsInitializer: compute_executor_arguments,                     *)
(*     compute_pants_ignore, create, create_with_build_config and the      *)
(*     handle_unknown_flags context manager.                               *)
(* Python exceptions are modelled as values: an operation either returns   *)
(* or raises, and the outcome of every finished top-level call is kept in  *)
(* the calling thread's record until that thread starts its next call.     *)
(***************************************************************************)
EXTENDS Integers, Sequences, FiniteSets, TLC

\* ------------------------------------------------------------------ bounds

\* Top-level calls (get, reset, create_with_build_config) one run may start.
MaxOps == 3

\* Threads of the process; the sequential specification runs thread 1 only.
NumThreads == 2

Threads == 1..NumThreads

\* The one control thread of a sequential run.
SeqThreads == {1}

\* ------------------------------------------------------------------ values

\* Python's None.
None == [kind |-> "None"]

\* A local name that has not been assigned yet.
Unbound == [kind |-> "Unbound"]

\* pants_version(): the version of the running tool.
pants_version == "2.2.0"

\* The bootstrap inputs (OptionsBootstrapper values) callers may pass.  Each
\* carries its argument list and the global-scope bootstrap options the code
\* reads: pants_version, pythonpath, plugins, backend_packages.  `valid`
\* says whether the global options parsed from it pass
\* GlobalOptions.validate_instance.
BootstrapInputs ==
    { [kind |-> "OptionsBootstrapper", args |-> a, pants_version |-> v,
       pythonpath |-> p.pythonpath, plugins |-> p.plugins,
       backend_packages |-> p.backend_packages, valid |-> ok] :
        a \in { <<"./pants", "list">>, <<"./pants", "--bogus", "list">> },
        v \in { "2.2.0", "2.1.0" },
        ok \in BOOLEAN,
        p \in { [pythonpath |-> <<"/r/a">>, plugins |-> <<"plug1">>,
                 backend_packages |-> <<"pants.backend.python">>],
                [pythonpath |-> <<"/r/b", "/r/a">>, plugins |-> <<>>,
                 backend_packages |-> <<"pants.backend.jvm">>] } }

\* sys.path when the process starts.
InitialSysPath == <<"/usr/lib/python">>

\* An exception object.  `info` carries what the message or the object holds.
Error(type, raisedBy, info) ==
    [kind |-> "Error", type |-> type, raisedBy |-> raisedBy, info |-> info]

\* How a finished call ended.
NoOutcome == [kind |-> "none"]
Returned(v) == [kind |-> "returned", value |-> v]
Raised(e) == [kind |-> "raised", error |-> e]

\* A thread's record.  op is the top-level call it is in or has last
\* finished, running whether it is still inside it; stage is the position in
\* create_with_build_config / handle_unknown_flags and gpc the position in
\* BuildConfigInitializer.get; the other fields are the locals of those
\* frames, the calls of create and of the help printer made by the current
\* top-level call, the counters seen when the call and when its latest get
\* began, and which call the thread made before this one and how it ended.
IdleThread ==
    [op |-> "none", running |-> FALSE, stage |-> "none", gpc |-> "none",
     inp |-> None, raise_ |-> FALSE, working_set |-> None, built |-> None,
     build_config |-> None, options |-> Unbound, err |-> None,
     h_build_config |-> None, h_options |-> Unbound,
     creates |-> <<>>, helps |-> <<>>, entry |-> None, snap |-> None,
     prev |-> None, outcome |-> NoOutcome]

\* ------------------------------------------------------------------- state

VARIABLES
    cached_build_config,           \* BuildConfigInitializer._cached_build_config
    sys_path,         \* sys.path
    th,              \* per thread: the frames of the call it is executing
    resolverCalls,   \* calls of PluginResolver.resolve so far
    activatorCalls,  \* calls of load_backends_and_plugins so far
    parseCalls,      \* calls of OptionsBootstrapper.get_full_options so far
    validateCalls,   \* calls of GlobalOptions.validate_instance so far
    emptyGets,       \* get calls that found the cache empty
    failure,         \* the error the resolver or the activator raised last
    first,           \* value returned by the first successful get since reset
    opsStarted,      \* top-level calls started
    call             \* a call of one of the pure compute_* functions

vars == <<cached_build_config, sys_path, th, resolverCalls, activatorCalls, parseCalls,
          validateCalls, emptyGets, failure, first, opsStarted, call>>

\* The process before any call of the cache or of create_with_build_config.
ProcessStart ==
    /\ cached_build_config = None
    /\ sys_path = InitialSysPath
    /\ th = [t \in Threads |-> IdleThread]
    /\ resolverCalls = 0
    /\ activatorCalls = 0
    /\ parseCalls = 0
    /\ validateCalls = 0
    /\ emptyGets = 0
    /\ failure = None
    /\ first = None
    /\ opsStarted = 0

\* The variables of the cache and of create_with_build_config.
processVars == <<cached_build_config, sys_path, th, resolverCalls, activatorCalls, parseCalls,
                 validateCalls, emptyGets, failure, first, opsStarted>>

Init ==
    /\ ProcessStart
    /\ call = None

\* ----------------------------------------------------------- collaborators

\* x in seq (Python's `in` on a list).
Member(x, seq) == \E i \in 1..Len(seq) : seq[i] = x

\* PluginResolver(options_bootstrapper).resolve(), when it succeeds.
resolve(b) == [kind |-> "WorkingSet", plugins |-> b.plugins]

\* load_backends_and_plugins(plugins, working_set, backend_packages), when
\* it succeeds: a new BuildConfiguration object, whose identity is the number
\* of the activator call that made it.
load_backends_and_plugins(plugins, working_set, backend_packages, id) ==
    [kind |-> "BuildConfiguration", id |-> id, plugins |-> plugins,
     working_set |-> working_set, backend_packages |-> backend_packages]

\* The scope infos of build_configuration.all_optionables.
KnownScopeInfos(bc) == <<"GLOBAL">> \o bc.backend_packages \o bc.plugins

\* The flags no scope registers.
UnknownFlags == { "--bogus" }

\* options_bootstrapper.get_full_options(known_scope_infos): the first
\* argument is the program name; a flag no scope knows raises
\* UnknownFlagsError.
get_full_options(b, known_scope_infos) ==
    LET flags == SelectSeq(Tail(b.args), LAMBDA a : a \in UnknownFlags)
    IN  IF flags # <<>>
        THEN Raised(Error("UnknownFlagsError", "get_full_options",
                          [flags |-> flags, args |-> b.args]))
        ELSE Returned([kind |-> "Options", args |-> b.args,
                       scopes |-> known_scope_infos, valid |-> b.valid])

\* GlobalOptions.validate_instance(options.for_global_scope()).
validate_instance(options) ==
    IF options.valid
    THEN Returned(None)
    ELSE Raised(Error("OptionsError", "validate_instance",
                      [args |-> options.args]))

\* ------------------------------------------------ BuildConfigInitializer

\* The counters a call sees when it begins.
Counters ==
    [cached_build_config |-> cached_build_config,
     resolver |-> resolverCalls, activator |-> activatorCalls,
     parse |-> parseCalls, validate |-> validateCalls, sys_path |-> sys_path,
     first |-> first, failure |-> failure]

\* The call a thread made before the one it starts now: which call, with
\* which pythonpath in its bootstrap input, how it ended and, if it raised,
\* with which error.
Previous(r) ==
    [op |-> r.op, outcome |-> r.outcome.kind,
     pythonpath |-> IF r.inp = None THEN <<>> ELSE r.inp.pythonpath,
     error |-> IF r.outcome.kind = "raised" THEN r.outcome.error ELSE None]

\* The thread's record once its top-level call has ended with outcome o: the
\* frames and their locals are gone, what the call did stays readable.
Finish(r, o) ==
    [r EXCEPT !.running = FALSE, !.stage = "none", !.gpc = "none",
              !.working_set = None, !.built = None, !.outcome = o]

\* The thread's record once its call of get has returned v: a top-level get
\* ends; inside create_with_build_config the value is bound to build_config
\* (line 186) and create comes next; inside handle_unknown_flags it is bound
\* to the handler's own build_config (line 200).
GetDone(r, v) ==
    LET r1 == [r EXCEPT !.gpc = "none", !.working_set = None, !.built = None]
    IN  CASE r.op = "get" -> Finish(r1, Returned(v))
          [] r.op = "cwbc" /\ r.stage = "get" ->
                [r1 EXCEPT !.build_config = v, !.stage = "create"]
          [] r.op = "cwbc" /\ r.stage = "h_get" ->
                [r1 EXCEPT !.h_build_config = v, !.stage = "h_create"]

\* get catching the collaborator's error and returning None instead.
GetRaise_Swallow(r, e) == GetDone(r, None)

\* The thread's record once its call of get has raised e: neither get, nor
\* create_with_build_config at line 186, nor the except block at line 200
\* catches it, so the top-level call ends with e.
GetRaise(r, e) == Finish(r, Raised(e))

\* setup's loop without the test of line 59: every path is appended.
ExtendSysPath_Always(path, pythonpath) == path \o pythonpath

\* sys.path after setup's loop (lines 58-61) over pythonpath.
RECURSIVE ExtendSysPath(_, _)
ExtendSysPath(path, pythonpath) ==
    IF pythonpath = <<>>
    THEN path
    ELSE ExtendSysPath(IF Member(Head(pythonpath), path)
                       THEN path
                       ELSE Append(path, Head(pythonpath)),
                       Tail(pythonpath))

\* A caller starts BuildConfigInitializer.get(b).
StartGet(t, b) ==
    /\ ~th[t].running
    /\ opsStarted < MaxOps
    /\ opsStarted' = opsStarted + 1
    /\ th' = [th EXCEPT ![t] = [IdleThread EXCEPT !.op = "get",
                                   !.running = TRUE, !.gpc = "check",
                                   !.inp = b, !.entry = Counters,
                                   !.prev = Previous(th[t])]]
    /\ UNCHANGED <<cached_build_config, sys_path, resolverCalls, activatorCalls, parseCalls,
                   validateCalls, emptyGets, failure, first>>

\* GetCheck without the test of line 42: every get builds a configuration.
GetCheck_IgnoreCache(t) ==
    /\ th[t].running
    /\ th[t].gpc = "check"
    /\ th' = [th EXCEPT ![t].snap = Counters, ![t].gpc = "init"]
    /\ emptyGets' = IF cached_build_config = None THEN emptyGets + 1 ELSE emptyGets
    /\ UNCHANGED <<cached_build_config, sys_path, resolverCalls, activatorCalls, parseCalls,
                   validateCalls, failure, first, opsStarted>>

\* Line 42: `if cls._cached_build_config is None`.
GetCheck(t) ==
    /\ th[t].running
    /\ th[t].gpc = "check"
    /\ th' = [th EXCEPT ![t].snap = Counters,
                        ![t].gpc = IF cached_build_config = None THEN "init" ELSE "return"]
    /\ emptyGets' = IF cached_build_config = None THEN emptyGets + 1 ELSE emptyGets
    /\ UNCHANGED <<cached_build_config, sys_path, resolverCalls, activatorCalls, parseCalls,
                   validateCalls, failure, first, opsStarted>>

\* __init__ extending sys.path before it calls the plugin resolver.
GetInit_PathFirst(t) ==
    /\ th[t].running
    /\ th[t].gpc = "init"
    /\ resolverCalls' = resolverCalls + 1
    /\ sys_path' = ExtendSysPath(sys_path, th[t].inp.pythonpath)
    /\ \E ok \in BOOLEAN :
          IF ok
          THEN /\ th' = [th EXCEPT ![t].working_set =
                                        resolve(th[t].inp),
                                   ![t].gpc = "setup"]
               /\ failure' = failure
          ELSE LET e == Error("PluginResolutionError", "resolve",
                              [call |-> resolverCalls + 1])
               IN  /\ th' = [th EXCEPT ![t] = GetRaise(th[t], e)]
                   /\ failure' = e
    /\ UNCHANGED <<cached_build_config, activatorCalls, parseCalls,
                   validateCalls, emptyGets, first, opsStarted>>

\* Lines 50-52: cls(options_bootstrapper), whose __init__ calls the plugin
\* resolver, which returns a working set or raises.
GetInit(t) ==
    /\ th[t].running
    /\ th[t].gpc = "init"
    /\ resolverCalls' = resolverCalls + 1
    /\ \E ok \in BOOLEAN :
          IF ok
          THEN /\ th' = [th EXCEPT ![t].working_set =
                                        resolve(th[t].inp),
                                   ![t].gpc = "setup"]
               /\ failure' = failure
          ELSE LET e == Error("PluginResolutionError", "resolve",
                              [call |-> resolverCalls + 1])
               IN  /\ th' = [th EXCEPT ![t] = GetRaise(th[t], e)]
                   /\ failure' = e
    /\ UNCHANGED <<cached_build_config, sys_path, activatorCalls, parseCalls, validateCalls,
                   emptyGets, first, opsStarted>>

\* setup without the loop of lines 58-61: sys.path is left as it is.
GetSetupPath_Skip(t) ==
    /\ th[t].running
    /\ th[t].gpc = "setup"
    /\ th' = [th EXCEPT ![t].gpc = "load"]
    /\ UNCHANGED <<cached_build_config, sys_path, resolverCalls, activatorCalls,
                   parseCalls, validateCalls, emptyGets, failure, first,
                   opsStarted>>

\* Lines 58-61: setup appends the pythonpath entries sys.path lacks.
GetSetupPath(t) ==
    /\ th[t].running
    /\ th[t].gpc = "setup"
    /\ sys_path' = ExtendSysPath(sys_path, th[t].inp.pythonpath)
    /\ th' = [th EXCEPT ![t].gpc = "load"]
    /\ UNCHANGED <<cached_build_config, resolverCalls, activatorCalls, parseCalls,
                   validateCalls, emptyGets, failure, first, opsStarted>>

\* Lines 64-68: setup calls load_backends_and_plugins, which returns a new
\* BuildConfiguration or raises.
GetSetupLoad(t) ==
    /\ th[t].running
    /\ th[t].gpc = "load"
    /\ activatorCalls' = activatorCalls + 1
    /\ \E ok \in BOOLEAN :
          IF ok
          THEN /\ th' = [th EXCEPT ![t].built =
                            load_backends_and_plugins(th[t].inp.plugins,
                                th[t].working_set,
                                th[t].inp.backend_packages,
                                activatorCalls + 1),
                                   ![t].gpc = "store"]
               /\ failure' = failure
          ELSE LET e == Error("BuildConfigurationError",
                              "load_backends_and_plugins",
                              [call |-> activatorCalls + 1])
               IN  /\ th' = [th EXCEPT ![t] = GetRaise(th[t], e)]
                   /\ failure' = e
    /\ UNCHANGED <<cached_build_config, sys_path, resolverCalls, parseCalls, validateCalls,
                   emptyGets, first, opsStarted>>

\* Line 43 without the assignment: the built configuration is dropped.
GetStore_Skip(t) ==
    /\ th[t].running
    /\ th[t].gpc = "store"
    /\ th' = [th EXCEPT ![t].gpc = "return"]
    /\ UNCHANGED <<cached_build_config, sys_path, resolverCalls, activatorCalls,
                   parseCalls, validateCalls, emptyGets, failure, first,
                   opsStarted>>

\* Line 43: the assignment to cls._cached_build_config.
GetStore(t) ==
    /\ th[t].running
    /\ th[t].gpc = "store"
    /\ cached_build_config' = th[t].built
    /\ th' = [th EXCEPT ![t].gpc = "return"]
    /\ UNCHANGED <<sys_path, resolverCalls, activatorCalls, parseCalls,
                   validateCalls, emptyGets, failure, first, opsStarted>>

\* Line 44: `return cls._cached_build_config`.
GetReturn(t) ==
    /\ th[t].running
    /\ th[t].gpc = "return"
    /\ th' = [th EXCEPT ![t] = GetDone(th[t], cached_build_config)]
    /\ first' = IF first = None THEN cached_build_config ELSE first
    /\ UNCHANGED <<cached_build_config, sys_path, resolverCalls, activatorCalls, parseCalls,
                   validateCalls, emptyGets, failure, opsStarted>>

\* reset without the assignment of line 48: the cached value stays.
reset_KeepCache(t) ==
    /\ ~th[t].running
    /\ opsStarted < MaxOps
    /\ opsStarted' = opsStarted + 1
    /\ th' = [th EXCEPT ![t] = [IdleThread EXCEPT !.op = "reset",
                                   !.entry = Counters,
                                   !.prev = Previous(th[t]),
                                   !.outcome = Returned(None)]]
    /\ UNCHANGED <<cached_build_config, first, sys_path, resolverCalls, activatorCalls,
                   parseCalls, validateCalls, emptyGets, failure>>

\* Lines 46-48: BuildConfigInitializer.reset().
reset(t) ==
    /\ ~th[t].running
    /\ opsStarted < MaxOps
    /\ opsStarted' = opsStarted + 1
    /\ cached_build_config' = None
    /\ first' = None
    /\ th' = [th EXCEPT ![t] = [IdleThread EXCEPT !.op = "reset",
                                   !.entry = Counters,
                                   !.prev = Previous(th[t]),
                                   !.outcome = Returned(None)]]
    /\ UNCHANGED <<sys_path, resolverCalls, activatorCalls, parseCalls,
                   validateCalls, emptyGets, failure>>

\* --------------------------------------------- OptionsInitializer.create

\* create with the version check moved behind the parse and the validation.
create_VersionLast(b, bc) ==
    LET options == get_full_options(b, KnownScopeInfos(bc))
        checked == validate_instance(options.value)
    IN  IF options.kind = "raised"
        THEN [outcome |-> options, parsed |-> 1, validated |-> 0]
        ELSE IF checked.kind = "raised"
        THEN [outcome |-> checked, parsed |-> 1, validated |-> 1]
        ELSE IF b.pants_version # pants_version
        THEN [outcome |-> Raised(Error("BuildConfigurationError", "create",
                        [message |-> <<"Version mismatch: Requested version was ",
                                       b.pants_version, ", our version is ",
                                       pants_version, ".">>])),
              parsed |-> 1, validated |-> 1]
        ELSE [outcome |-> options, parsed |-> 1, validated |-> 1]

\* Lines 159-180: what one call of create(b, bc) does: its outcome and the
\* calls of the option-parsing engine and of the validator it makes.  The
\* version check comes first; all_optionables is read next (an attribute of
\* a BuildConfiguration only); then the parse; then the validation.
create(b, bc) ==
    IF b.pants_version # pants_version
    THEN [outcome |-> Raised(Error("BuildConfigurationError", "create",
                        [message |-> <<"Version mismatch: Requested version was ",
                                       b.pants_version, ", our version is ",
                                       pants_version, ".">>])),
          parsed |-> 0, validated |-> 0]
    ELSE IF bc.kind # "BuildConfiguration"
    THEN [outcome |-> Raised(Error("AttributeError", "create",
                        [name |-> "all_optionables"])),
          parsed |-> 0, validated |-> 0]
    ELSE LET options == get_full_options(b, KnownScopeInfos(bc))
         IN  IF options.kind = "raised"
             THEN [outcome |-> options, parsed |-> 1, validated |-> 0]
             ELSE LET checked == validate_instance(options.value)
                  IN  [outcome |-> IF checked.kind = "raised"
                                   THEN checked
                                   ELSE options,
                       parsed |-> 1, validated |-> 1]

\* The recovery's bootstrapper with the original arguments left in place.
no_arg_bootstrapper_KeepArgs(b) == b

\* Lines 203-205: dataclasses.replace(options_bootstrapper,
\* args=("dummy_first_arg",)).
no_arg_bootstrapper(b) == [b EXCEPT !.args = <<"dummy_first_arg">>]

\* A caller starts create_with_build_config(b, raise_=rz); its first
\* statement (line 186) calls BuildConfigInitializer.get(b).
StartCwbc(t, b, rz) ==
    /\ ~th[t].running
    /\ opsStarted < MaxOps
    /\ opsStarted' = opsStarted + 1
    /\ th' = [th EXCEPT ![t] = [IdleThread EXCEPT !.op = "cwbc",
                                   !.running = TRUE, !.stage = "get",
                                   !.gpc = "check", !.inp = b,
                                   !.raise_ = rz, !.entry = Counters,
                                   !.prev = Previous(th[t])]]
    /\ UNCHANGED <<cached_build_config, sys_path, resolverCalls, activatorCalls, parseCalls,
                   validateCalls, emptyGets, failure, first>>

\* The with statement with `except Exception` in place of
\* `except UnknownFlagsError`: every error of create enters the recovery.
CwbcCreate_CatchAll(t) ==
    /\ th[t].running
    /\ th[t].stage = "create"
    /\ LET r == th[t]
           run == create(r.inp, r.build_config)
           r1 == [r EXCEPT !.creates =
                      Append(@, [args |-> r.inp.args,
                                 build_config |-> r.build_config])]
       IN  /\ parseCalls' = parseCalls + run.parsed
           /\ validateCalls' = validateCalls + run.validated
           /\ th' = [th EXCEPT ![t] =
                 IF run.outcome.kind = "returned"
                 THEN [r1 EXCEPT !.options = run.outcome.value,
                                 !.stage = "return"]
                 ELSE [r1 EXCEPT !.err = run.outcome.error,
                                 !.stage = "h_get", !.gpc = "check"]]
    /\ UNCHANGED <<cached_build_config, sys_path, resolverCalls, activatorCalls, emptyGets,
                   failure, first, opsStarted>>

\* Lines 187-188: create inside `with handle_unknown_flags(...)`.  A returned
\* Options is bound to `options`; an UnknownFlagsError enters the except
\* block (line 199), whose first statement calls get again (line 200); any
\* other error leaves the with statement and the call.
CwbcCreate(t) ==
    /\ th[t].running
    /\ th[t].stage = "create"
    /\ LET r == th[t]
           run == create(r.inp, r.build_config)
           r1 == [r EXCEPT !.creates =
                      Append(@, [args |-> r.inp.args,
                                 build_config |-> r.build_config])]
       IN  /\ parseCalls' = parseCalls + run.parsed
           /\ validateCalls' = validateCalls + run.validated
           /\ th' = [th EXCEPT ![t] =
                 IF run.outcome.kind = "returned"
                 THEN [r1 EXCEPT !.options = run.outcome.value,
                                 !.stage = "return"]
                 ELSE IF run.outcome.error.type = "UnknownFlagsError"
                 THEN [r1 EXCEPT !.err = run.outcome.error,
                                 !.stage = "h_get", !.gpc = "check"]
                 ELSE Finish(r1, run.outcome)]
    /\ UNCHANGED <<cached_build_config, sys_path, resolverCalls, activatorCalls, emptyGets,
                   failure, first, opsStarted>>

\* The except block catching what its own create raises and going on to the
\* end of the block without a diagnostic.
HandlerCreate_IgnoreError(t) ==
    /\ th[t].running
    /\ th[t].stage = "h_create"
    /\ LET r == th[t]
           nab == no_arg_bootstrapper(r.inp)
           run == create(nab, r.h_build_config)
           r1 == [r EXCEPT !.creates =
                      Append(@, [args |-> nab.args,
                                 build_config |-> r.h_build_config])]
       IN  /\ parseCalls' = parseCalls + run.parsed
           /\ validateCalls' = validateCalls + run.validated
           /\ th' = [th EXCEPT ![t] =
                 IF run.outcome.kind = "returned"
                 THEN [r1 EXCEPT !.h_options = run.outcome.value,
                                 !.stage = "h_help"]
                 ELSE [r1 EXCEPT !.stage = "h_exit"]]
    /\ UNCHANGED <<cached_build_config, sys_path, resolverCalls, activatorCalls,
                   emptyGets, failure, first, opsStarted>>

\* Lines 203-206: the except block builds the no-argument bootstrapper and
\* calls create on it; an error raised here leaves the except block, the
\* context manager and the call.
HandlerCreate(t) ==
    /\ th[t].running
    /\ th[t].stage = "h_create"
    /\ LET r == th[t]
           nab == no_arg_bootstrapper(r.inp)
           run == create(nab, r.h_build_config)
           r1 == [r EXCEPT !.creates =
                      Append(@, [args |-> nab.args,
                                 build_config |-> r.h_build_config])]
       IN  /\ parseCalls' = parseCalls + run.parsed
           /\ validateCalls' = validateCalls + run.validated
           /\ th' = [th EXCEPT ![t] =
                 IF run.outcome.kind = "returned"
                 THEN [r1 EXCEPT !.h_options = run.outcome.value,
                                 !.stage = "h_help"]
                 ELSE Finish(r1, run.outcome)]
    /\ UNCHANGED <<cached_build_config, sys_path, resolverCalls, activatorCalls, emptyGets,
                   failure, first, opsStarted>>

\* Line 207: FlagErrorHelpPrinter(options).handle_unknown_flags(err).
HandlerHelp(t) ==
    /\ th[t].running
    /\ th[t].stage = "h_help"
    /\ th' = [th EXCEPT ![t].helps =
                  Append(@, [options |-> th[t].h_options, err |-> th[t].err]),
                        ![t].stage = "h_exit"]
    /\ UNCHANGED <<cached_build_config, sys_path, resolverCalls, activatorCalls, parseCalls,
                   validateCalls, emptyGets, failure, first, opsStarted>>

\* The except block without lines 208-209: the error is always swallowed.
HandlerExit_Swallow(t) ==
    /\ th[t].running
    /\ th[t].stage = "h_exit"
    /\ th' = [th EXCEPT ![t].stage = "return"]
    /\ UNCHANGED <<cached_build_config, sys_path, resolverCalls, activatorCalls, parseCalls,
                   validateCalls, emptyGets, failure, first, opsStarted>>

\* Lines 208-209: `if raise_: raise err`; otherwise the generator ends, the
\* context manager swallows the error and the statement after the with
\* block runs.
HandlerExit(t) ==
    /\ th[t].running
    /\ th[t].stage = "h_exit"
    /\ th' = [th EXCEPT ![t] = IF th[t].raise_
                               THEN Finish(th[t], Raised(th[t].err))
                               ELSE [th[t] EXCEPT !.stage = "return"]]
    /\ UNCHANGED <<cached_build_config, sys_path, resolverCalls, activatorCalls, parseCalls,
                   validateCalls, emptyGets, failure, first, opsStarted>>

\* Line 189: `return build_config, options`.  Reading a local that was never
\* assigned raises UnboundLocalError.
CwbcReturn(t) ==
    /\ th[t].running
    /\ th[t].stage = "return"
    /\ th' = [th EXCEPT ![t] =
                 IF th[t].options = Unbound
                 THEN Finish(th[t], Raised(Error("UnboundLocalError",
                                 "create_with_build_config",
                                 [name |-> "options"])))
                 ELSE Finish(th[t], Returned([kind |-> "Tuple",
                                 build_config |-> th[t].build_config,
                                 options |-> th[t].options]))]
    /\ UNCHANGED <<cached_build_config, sys_path, resolverCalls, activatorCalls, parseCalls,
                   validateCalls, emptyGets, failure, first, opsStarted>>

\* --------------------------------------------------------- specification

\* One step of one of the threads in T.
Step(T) ==
    \E t \in T :
        \/ \E b \in BootstrapInputs : StartGet(t, b)
        \/ GetCheck(t)
        \/ GetInit(t)
        \/ GetSetupPath(t)
        \/ GetSetupLoad(t)
        \/ GetStore(t)
        \/ GetReturn(t)
        \/ reset(t)
        \/ \E b \in BootstrapInputs, rz \in BOOLEAN : StartCwbc(t, b, rz)
        \/ CwbcCreate(t)
        \/ HandlerCreate(t)
        \/ HandlerHelp(t)
        \/ HandlerExit(t)
        \/ CwbcReturn(t)

\* A sequential run: one control thread makes one call after another.
Next == Step(SeqThreads) /\ UNCHANGED call

Spec == Init /\ [][Next]_vars

\* ------------------------------------------- compute_executor_arguments

\* Largest --rule-threads-core value tried.
MaxCore == 6

\* The floor of line 80 and the factor of line 87.
MinRuleThreadsCore == 2
DefaultMaxFactor == 4

\* A Python int, as an option value that may also be None.
PyInt(n) == [kind |-> "int", value |-> n]

\* Python's truth value of an Optional[int]: None and 0 are false.
Truthy(v) == v # None /\ v.value # 0

\* compute_executor_arguments with `is not None` in place of the truth test.
compute_executor_arguments_IsNotNone(rule_threads_core, rule_threads_max) ==
    IF rule_threads_core < MinRuleThreadsCore
    THEN Raised(Error("ValueError", "compute_executor_arguments",
            [message |-> "--rule-threads-core values less than 2 are not supported."]))
    ELSE Returned(<<rule_threads_core,
                    IF rule_threads_max # None
                    THEN rule_threads_max.value
                    ELSE DefaultMaxFactor * rule_threads_core>>)

\* compute_executor_arguments raising the error type create raises.
compute_executor_arguments_OtherError(rule_threads_core, rule_threads_max) ==
    IF rule_threads_core < MinRuleThreadsCore
    THEN Raised(Error("BuildConfigurationError", "compute_executor_arguments",
            [message |-> "--rule-threads-core values less than 2 are not supported."]))
    ELSE Returned(<<rule_threads_core,
                    IF Truthy(rule_threads_max)
                    THEN rule_threads_max.value
                    ELSE DefaultMaxFactor * rule_threads_core>>)

\* Lines 74-89.
compute_executor_arguments(rule_threads_core, rule_threads_max) ==
    IF rule_threads_core < MinRuleThreadsCore
    THEN Raised(Error("ValueError", "compute_executor_arguments",
            [message |-> "--rule-threads-core values less than 2 are not supported."]))
    ELSE Returned(<<rule_threads_core,
                    IF Truthy(rule_threads_max)
                    THEN rule_threads_max.value
                    ELSE DefaultMaxFactor * rule_threads_core>>)

\* The bootstrap options a caller may pass: any core count from -1 up, and
\* no maximum or any maximum from -1 up.
ExecutorInputs ==
    { [fn |-> "compute_executor_arguments", rule_threads_core |-> c,
       rule_threads_max |-> m, outcome |-> NoOutcome] :
        c \in -1..MaxCore,
        m \in {None} \cup { PyInt(n) : n \in -1..(DefaultMaxFactor * MaxCore + 1) } }

InitExecutor ==
    /\ ProcessStart
    /\ call \in ExecutorInputs

\* The call of compute_executor_arguments is made.
CallComputeExecutorArguments ==
    /\ call.fn = "compute_executor_arguments"
    /\ call.outcome = NoOutcome
    /\ call' = [call EXCEPT !.outcome =
                    compute_executor_arguments(call.rule_threads_core,
                                             call.rule_threads_max)]
    /\ UNCHANGED processVars

NextExecutor == CallComputeExecutorArguments

SpecExecutor == InitExecutor /\ [][NextExecutor]_vars

\* The call of compute_executor_arguments has been made.
ExecutorDone == call.fn = "compute_executor_arguments" /\ call.outcome # NoOutcome

\* ------------------------------------------------- compute_pants_ignore

\* Paths and globs are Python strings, modelled as sequences of characters.
\* A string, as a value that may also be None.
PyStr(chars) == [kind |-> "str", value |-> chars]

\* os.path.sep.
Sep == "/"

\* pants.util.dirutil.fast_relpath_optional(path, start): a prefix-based
\* relpath without normalization; None when start is no directory-aware
\* prefix of path.
fast_relpath_optional(path, start) ==
    IF Len(start) = 0
    THEN PyStr(path)
    ELSE LET pref_end == IF start[Len(start)] = Sep
                         THEN Len(start) - 1
                         ELSE Len(start)
         IN  IF pref_end > Len(path)
             THEN None
             ELSE IF /\ SubSeq(path, 1, pref_end) = SubSeq(start, 1, pref_end)
                     /\ (Len(path) = pref_end \/ path[pref_end + 1] = Sep)
             THEN PyStr(SubSeq(path, pref_end + 2, Len(path)))
             ELSE None

\* str.rstrip(os.path.sep).
RECURSIVE rstrip(_)
rstrip(chars) ==
    IF chars # <<>> /\ chars[Len(chars)] = Sep
    THEN rstrip(SubSeq(chars, 1, Len(chars) - 1))
    ELSE chars

\* add with `is not None` in place of the truth test of line 104.
add_IsNotNone(pants_ignore, buildroot, absolute_path, include) ==
    LET maybe_rel_path == fast_relpath_optional(absolute_path, buildroot)
    IN  IF maybe_rel_path # None
        THEN Append(pants_ignore,
                    (IF include THEN <<"!">> ELSE <<>>) \o <<"/">>
                        \o rstrip(maybe_rel_path.value))
        ELSE pants_ignore

\* Lines 100-107: the local function add, with the list it appends to and
\* the build root it closes over as parameters.  An empty relative path is
\* false, like None.
add(pants_ignore, buildroot, absolute_path, include) ==
    LET maybe_rel_path == fast_relpath_optional(absolute_path, buildroot)
    IN  IF maybe_rel_path # None /\ maybe_rel_path.value # <<>>
        THEN Append(pants_ignore,
                    (IF include THEN <<"!">> ELSE <<>>) \o <<"/">>
                        \o rstrip(maybe_rel_path.value))
        ELSE pants_ignore

\* Lines 91-113.
compute_pants_ignore(buildroot, global_options) ==
    LET l0 == global_options.pants_ignore
        l1 == add(l0, buildroot, global_options.pants_workdir, FALSE)
        l2 == add(l1, buildroot, global_options.pants_distdir, FALSE)
        l3 == add(l2, buildroot, global_options.pants_subprocessdir, FALSE)
    IN  l3

\* The build roots tried: /r and /r/a.
BuildRoots == { <<"/", "r">>, <<"/", "r", "/", "a">> }

\* The directories tried: /r/w, /r/w/, /o/d, /r, /r/, /rw, /r/a, /r/a/b and
\* /r/a/b/ -- absolute paths without empty or dot segments, with at most one
\* trailing separator.
Directories ==
    { <<"/", "r", "/", "w">>, <<"/", "r", "/", "w", "/">>,
      <<"/", "o", "/", "d">>, <<"/", "r">>, <<"/", "r", "/">>,
      <<"/", "r", "w">>, <<"/", "r", "/", "a">>,
      <<"/", "r", "/", "a", "/", "b">>,
      <<"/", "r", "/", "a", "/", "b", "/">> }

\* The user's --pants-ignore lists tried: [], ["foo"] and ["foo", "!/w"].
UserIgnores ==
    { <<>>, << <<"f", "o", "o">> >>,
      << <<"f", "o", "o">>, <<"!", "/", "w">> >> }

IgnoreInputs ==
    { [fn |-> "compute_pants_ignore", buildroot |-> r,
       global_options |-> [pants_ignore |-> u, pants_workdir |-> w,
                           pants_distdir |-> d, pants_subprocessdir |-> p],
       outcome |-> NoOutcome] :
        r \in BuildRoots, u \in UserIgnores,
        w \in Directories, d \in Directories, p \in Directories }

InitIgnore ==
    /\ ProcessStart
    /\ call \in IgnoreInputs

\* The call of compute_pants_ignore is made.
CallComputePantsIgnore ==
    /\ call.fn = "compute_pants_ignore"
    /\ call.outcome = NoOutcome
    /\ call' = [call EXCEPT !.outcome =
                    Returned(compute_pants_ignore(call.buildroot,
                                                  call.global_options))]
    /\ UNCHANGED processVars

NextIgnore == CallComputePantsIgnore

SpecIgnore == InitIgnore /\ [][NextIgnore]_vars

\* The call of compute_pants_ignore has been made.
IgnoreDone == call.fn = "compute_pants_ignore" /\ call.outcome # NoOutcome

\* ----------------------------------------------------------------- claims

\* A top-level call of thread t has ended.
Ended(t, op) == th[t].op = op /\ ~th[t].running

\* C1: in a sequential run, once a get has succeeded and until the next
\* reset, every get -- whatever bootstrap input it is given -- returns the
\* very BuildConfiguration the first successful get returned, and calls
\* neither the plugin resolver nor the activator.
C1_GetIdempotent ==
    \A t \in Threads :
        (th[t].op = "get" /\ th[t].entry.first # None) =>
            /\ resolverCalls = th[t].entry.resolver
            /\ activatorCalls = th[t].entry.activator
            /\ ~th[t].running => th[t].outcome = Returned(th[t].entry.first)

\* C1's case: a get given other plugins than those of the cached
\* configuration has returned the cached configuration.
C1_Witness ==
    \E t \in Threads :
        /\ Ended(t, "get")
        /\ th[t].entry.first # None
        /\ th[t].outcome.kind = "returned"
        /\ th[t].outcome.value.kind = "BuildConfiguration"
        /\ th[t].outcome.value.plugins # th[t].inp.plugins

\* Threads between get's test of the cache and the activator's return.
Activating == { t \in Threads : th[t].running /\ th[t].gpc \in {"init", "setup", "load"} }

\* C2: in a sequential run, a get that follows reset() and returns has
\* called the resolver and the activator exactly once each and has cached
\* the configuration it returns; and as long as no activation has failed,
\* the activator has been called once per get that found the cache empty.
C2_ResetThenActivateOnce ==
    /\ failure = None => activatorCalls + Cardinality(Activating) = emptyGets
    /\ \A t \in Threads :
          (Ended(t, "get") /\ th[t].prev.op = "reset"
                           /\ th[t].outcome.kind = "returned") =>
              /\ resolverCalls = th[t].entry.resolver + 1
              /\ activatorCalls = th[t].entry.activator + 1
              /\ th[t].outcome.value.kind = "BuildConfiguration"
              /\ th[t].outcome.value.id = activatorCalls
              /\ cached_build_config = th[t].outcome.value

\* C2's case: a configuration was cached, reset() cleared it, and the get
\* after the reset has returned a second configuration.
C2_Witness ==
    \E t \in Threads :
        /\ Ended(t, "get")
        /\ th[t].prev.op = "reset"
        /\ th[t].outcome.kind = "returned"
        /\ th[t].entry.activator = 1
        /\ failure = None

\* C3: in a sequential run, when the resolver or the activator raises
\* inside a get, the get ends by raising that very error and the cache is
\* unset afterwards; the get that follows a failed get calls the resolver
\* again and, unless the resolver fails, the activator.
C3_FailurePropagates ==
    \A t \in Threads :
        /\ (Ended(t, "get") /\ failure # th[t].entry.failure) =>
              /\ th[t].outcome = Raised(failure)
              /\ cached_build_config = None
        /\ (Ended(t, "get") /\ th[t].prev.op = "get"
                            /\ th[t].prev.outcome = "raised") =>
              /\ resolverCalls = th[t].entry.resolver + 1
              /\ \/ activatorCalls = th[t].entry.activator + 1
                 \/ th[t].outcome = Raised(Error("PluginResolutionError",
                                        "resolve", [call |-> resolverCalls]))

\* C3's case: a get failed in the activator, and the get after it built and
\* returned a configuration.
C3_Witness ==
    \E t \in Threads :
        /\ Ended(t, "get")
        /\ th[t].prev.op = "get"
        /\ th[t].prev.outcome = "raised"
        /\ th[t].entry.failure # None
        /\ th[t].entry.failure.raisedBy = "load_backends_and_plugins"
        /\ th[t].outcome.kind = "returned"

\* What the first create of t's create_with_build_config did, and what the
\* recovery's create on the no-argument bootstrapper did.
FirstCreate(t) == create(th[t].inp, th[t].build_config)
RecoveryCreate(t) == create(no_arg_bootstrapper(th[t].inp), th[t].h_build_config)

\* t is in, or has ended, a create_with_build_config whose first create
\* raised UnknownFlagsError and whose recovery create returned.
Recovered(t) ==
    /\ th[t].op = "cwbc"
    /\ Len(th[t].creates) = 2
    /\ FirstCreate(t).outcome.kind = "raised"
    /\ FirstCreate(t).outcome.error.type = "UnknownFlagsError"
    /\ RecoveryCreate(t).outcome.kind = "returned"

\* C4 (as claimed): a non-strict create_with_build_config whose first create
\* raised UnknownFlagsError and whose recovery create succeeded raises
\* nothing and returns normally.
C4_NonStrictRaisesNothing ==
    \A t \in Threads :
        (Recovered(t) /\ ~th[t].raise_ /\ ~th[t].running) =>
            th[t].outcome.kind = "returned"

\* C5: in strict mode, when the first create raised UnknownFlagsError and the
\* recovery create succeeded, the help printer is called exactly once, with
\* the clean Options and the original error, and the call then ends by
\* raising that original error; an UnknownFlagsError never reaches the caller
\* before the help printer has been called.
C5_StrictReraisesAfterDiagnostic ==
    \A t \in Threads :
        (th[t].op = "cwbc" /\ th[t].raise_) =>
            /\ Len(th[t].helps) <= 1
            /\ (~th[t].running /\ th[t].outcome.kind = "raised"
                    /\ th[t].outcome.error.type = "UnknownFlagsError") =>
                  Len(th[t].helps) = 1
            /\ (Recovered(t) /\ ~th[t].running) =>
                  /\ th[t].helps =
                        << [options |-> RecoveryCreate(t).outcome.value,
                            err |-> FirstCreate(t).outcome.error] >>
                  /\ th[t].helps[1].options.args = <<"dummy_first_arg">>
                  /\ th[t].outcome = Raised(FirstCreate(t).outcome.error)

\* C5's case: a strict call has ended by raising the UnknownFlagsError after
\* one call of the help printer.
C5_Witness ==
    \E t \in Threads :
        /\ Recovered(t)
        /\ th[t].raise_
        /\ ~th[t].running
        /\ Len(th[t].helps) = 1
        /\ th[t].outcome.kind = "raised"
        /\ th[t].outcome.error.type = "UnknownFlagsError"

\* C6: create on a bootstrap input whose pants_version differs from the
\* running version raises a BuildConfigurationError whose message names both
\* versions, and calls neither the option-parsing engine nor the validator.
C6_VersionMismatchFailsFirst ==
    \A t \in Threads :
        (th[t].op = "cwbc" /\ Len(th[t].creates) >= 1
                /\ th[t].inp.pants_version # pants_version) =>
            /\ ~th[t].running
            /\ Len(th[t].creates) = 1
            /\ th[t].outcome.kind = "raised"
            /\ th[t].outcome.error.type = "BuildConfigurationError"
            /\ th[t].outcome.error.raisedBy = "create"
            /\ Member(th[t].inp.pants_version, th[t].outcome.error.info.message)
            /\ Member(pants_version, th[t].outcome.error.info.message)
            /\ parseCalls = th[t].entry.parse
            /\ validateCalls = th[t].entry.validate

\* C6's case: create was called on an input of another version that also
\* carries an unknown flag and invalid global options.
C6_Witness ==
    \E t \in Threads :
        /\ Ended(t, "cwbc")
        /\ Len(th[t].creates) = 1
        /\ th[t].inp.pants_version # pants_version
        /\ Member("--bogus", th[t].inp.args)
        /\ ~th[t].inp.valid

\* C7: when the first create raises an error that is no UnknownFlagsError,
\* create_with_build_config ends by raising that error, strict or not,
\* without a second create and without a call of the help printer.
C7_OtherErrorsPropagate ==
    \A t \in Threads :
        (th[t].op = "cwbc" /\ Len(th[t].creates) >= 1
                /\ FirstCreate(t).outcome.kind = "raised"
                /\ FirstCreate(t).outcome.error.type # "UnknownFlagsError") =>
            /\ ~th[t].running
            /\ th[t].outcome = FirstCreate(t).outcome
            /\ Len(th[t].creates) = 1
            /\ th[t].helps = <<>>
            /\ parseCalls <= th[t].entry.parse + 1

\* C7's case: a non-strict call has ended with the validator's error.
C7_Witness ==
    \E t \in Threads :
        /\ Ended(t, "cwbc")
        /\ ~th[t].raise_
        /\ th[t].outcome.kind = "raised"
        /\ th[t].outcome.error.type = "OptionsError"
        /\ Len(th[t].creates) = 1

\* C8 (as claimed): for a core count of at least 2 the result is
\* (core, 4 * core) when no maximum is given and (core, max) for every given
\* maximum, 0 included.
C8_MaxVerbatimWheneverSupplied ==
    (ExecutorDone /\ call.rule_threads_core >= 2) =>
        call.outcome =
            Returned(<<call.rule_threads_core,
                       IF call.rule_threads_max = None
                       THEN 4 * call.rule_threads_core
                       ELSE call.rule_threads_max.value>>)

\* C8 (amended): for a core count of at least 2 the result is
\* (core, 4 * core) when no maximum is given or the given maximum is 0, and
\* (core, max) for every other given maximum, also one below the core count.
C8_MaxVerbatimUnlessZero ==
    (ExecutorDone /\ call.rule_threads_core >= 2) =>
        call.outcome =
            Returned(<<call.rule_threads_core,
                       IF call.rule_threads_max = None
                            \/ call.rule_threads_max.value = 0
                       THEN 4 * call.rule_threads_core
                       ELSE call.rule_threads_max.value>>)

\* C8's case: a maximum below the core count was returned as given.
C8_Witness ==
    /\ ExecutorDone
    /\ call.rule_threads_core = 3
    /\ call.rule_threads_max = PyInt(1)
    /\ call.outcome = Returned(<<3, 1>>)

\* The error type create raises on a version mismatch.
VersionMismatchErrorType ==
    create([pants_version |-> "other"], None).outcome.error.type

\* C9 (as claimed): compute_executor_arguments raises exactly when the core
\* count is below 2, whatever the maximum, and what it raises is of the
\* error type of the version mismatch.
C9_FailsWithConfigurationError ==
    ExecutorDone =>
        /\ call.outcome.kind = "raised" <=> call.rule_threads_core < 2
        /\ call.outcome.kind = "raised" =>
              call.outcome.error.type = VersionMismatchErrorType

\* C9 (amended): compute_executor_arguments raises exactly when the core
\* count is below 2, whatever the maximum, and what it raises is a
\* ValueError, which is not the error type of the version mismatch.
C9_FailsWithValueError ==
    ExecutorDone =>
        /\ call.outcome.kind = "raised" <=> call.rule_threads_core < 2
        /\ call.outcome.kind = "raised" =>
              /\ call.outcome.error.type = "ValueError"
              /\ call.outcome.error.type # VersionMismatchErrorType

\* C9's case: a core count of 1 with a maximum given has raised.
C9_Witness ==
    /\ ExecutorDone
    /\ call.rule_threads_core = 1
    /\ call.rule_threads_max = PyInt(8)
    /\ call.outcome.kind = "raised"

\* The segments of a path: what stands between its separators.
RECURSIVE SplitPath(_, _, _)
SplitPath(chars, segment, done) ==
    LET closed == IF segment = <<>> THEN done ELSE Append(done, segment)
    IN  IF chars = <<>>
        THEN closed
        ELSE IF Head(chars) = "/"
        THEN SplitPath(Tail(chars), <<>>, closed)
        ELSE SplitPath(Tail(chars), Append(segment, Head(chars)), done)

Segments(path) == SplitPath(path, <<>>, <<>>)

\* The segments joined by separators.
RECURSIVE JoinPath(_)
JoinPath(segments) ==
    IF segments = <<>>
    THEN <<>>
    ELSE IF Len(segments) = 1
    THEN Head(segments)
    ELSE Head(segments) \o <<"/">> \o JoinPath(Tail(segments))

\* dir lies strictly below root.
IsDescendant(dir, root) ==
    /\ Len(Segments(dir)) > Len(Segments(root))
    /\ SubSeq(Segments(dir), 1, Len(Segments(root))) = Segments(root)

\* The entries the claim gives a directory: none unless it is a descendant
\* of the build root, else "/" and its path from the build root.
IgnoreEntries(dir, root) ==
    IF IsDescendant(dir, root)
    THEN << <<"/">> \o JoinPath(SubSeq(Segments(dir), Len(Segments(root)) + 1,
                                       Len(Segments(dir)))) >>
    ELSE <<>>

\* C10: compute_pants_ignore returns the user's list followed by the entries
\* of the workdir, the distdir and the subprocess dir, in that order, where
\* a directory has an entry exactly if it is a descendant of the build root,
\* and the entry is "/" and its path relative to the build root without
\* trailing separators, never with a "!" in front.
C10_PantsIgnore ==
    IgnoreDone =>
        LET g == call.global_options
            r == call.buildroot
            result == call.outcome.value
        IN  /\ result = g.pants_ignore
                           \o IgnoreEntries(g.pants_workdir, r)
                           \o IgnoreEntries(g.pants_distdir, r)
                           \o IgnoreEntries(g.pants_subprocessdir, r)
            /\ \A i \in (Len(g.pants_ignore) + 1)..Len(result) :
                  /\ Head(result[i]) = "/"
                  /\ result[i][Len(result[i])] # "/"

\* C10's case: build root /r, user list ["foo"], workdir /r/w/, distdir /o/d
\* outside the build root, subprocess dir /r/a/b: the result is
\* ["foo", "/w", "/a/b"].
C10_Witness ==
    /\ IgnoreDone
    /\ call.buildroot = <<"/", "r">>
    /\ call.global_options =
          [pants_ignore |-> << <<"f", "o", "o">> >>,
           pants_workdir |-> <<"/", "r", "/", "w", "/">>,
           pants_distdir |-> <<"/", "o", "/", "d">>,
           pants_subprocessdir |-> <<"/", "r", "/", "a", "/", "b">>]
    /\ call.outcome.value =
          << <<"f", "o", "o">>, <<"/", "w">>, <<"/", "a", "/", "b">> >>

\* ------------------------------------ compute_pantsd_invalidation_globs

\* posixpath.normpath on the segments of an absolute path: "." is skipped
\* and ".." removes the segment before it (at the root, nothing).
RECURSIVE NormSegments(_, _)
NormSegments(segments, done) ==
    IF segments = <<>>
    THEN done
    ELSE IF Head(segments) = <<".">>
    THEN NormSegments(Tail(segments), done)
    ELSE IF Head(segments) = <<".", ".">>
    THEN NormSegments(Tail(segments),
                      IF done = <<>> THEN done
                      ELSE SubSeq(done, 1, Len(done) - 1))
    ELSE NormSegments(Tail(segments), Append(done, Head(segments)))

\* The number of leading elements two lists share (os.path.commonprefix).
RECURSIVE CommonPrefixLen(_, _)
CommonPrefixLen(a, b) ==
    IF a = <<>> \/ b = <<>> \/ Head(a) # Head(b)
    THEN 0
    ELSE 1 + CommonPrefixLen(Tail(a), Tail(b))

\* os.path.relpath(path, start) for absolute paths: purely lexical.
relpath(path, start) ==
    LET start_list == NormSegments(Segments(start), <<>>)
        path_list == NormSegments(Segments(path), <<>>)
        i == CommonPrefixLen(start_list, path_list)
        rel_list == [k \in 1..(Len(start_list) - i) |-> <<".", ".">>]
                        \o SubSeq(path_list, i + 1, Len(path_list))
    IN  IF rel_list = <<>> THEN <<".">> ELSE JoinPath(rel_list)

\* str.startswith.
startswith(chars, prefix) ==
    Len(chars) >= Len(prefix) /\ SubSeq(chars, 1, Len(prefix)) = prefix

\* A list's extend in place of OrderedSet.update: nothing is deduplicated.
OrderedSetUpdate_NoDedupe(set, items) == set \o items

\* OrderedSet.update(items): each item not yet in the set is added at its end.
RECURSIVE OrderedSetUpdate(_, _)
OrderedSetUpdate(set, items) ==
    IF items = <<>>
    THEN set
    ELSE OrderedSetUpdate(IF Member(Head(items), set)
                          THEN set
                          ELSE Append(set, Head(items)),
                          Tail(items))

\* Lines 147-151: the globs that are always added.
FixedGlobs ==
    << <<"!", "*", ".", "p", "y", "c">>,
       <<"!", "_", "_", "p", "y", "c", "a", "c", "h", "e", "_", "_", "/">>,
       <<"r", "e", "q", "u", "i", "r", "e", "m", "e", "n", "t", "s", ".", "t", "x", "t">>,
       <<"3", "r", "d", "p", "a", "r", "t", "y", "/", "*", "*", "/", "r", "e", "q", "u", "i", "r", "e", "m", "e", "n", "t", "s", ".", "t", "x", "t">> >>

\* Lines 133-142: the loop over potentially_absolute_globs.
RECURSIVE SanitizeGlobs(_, _, _)
SanitizeGlobs(invalidation_globs, globs, buildroot) ==
    IF globs = <<>>
    THEN invalidation_globs
    ELSE LET glob_relpath == relpath(Head(globs), buildroot)
         IN  SanitizeGlobs(
                 IF glob_relpath = <<".">> \/ startswith(glob_relpath, <<".", ".">>)
                 THEN invalidation_globs
                 ELSE OrderedSetUpdate(invalidation_globs,
                          <<glob_relpath, glob_relpath \o <<"/", "*", "*">> >>),
                 Tail(globs), buildroot)

\* Lines 115-157, with sys.path as a parameter.
compute_pantsd_invalidation_globs(buildroot, path, bootstrap_options) ==
    LET potentially_absolute_globs ==
            path \o bootstrap_options.pythonpath
                 \o bootstrap_options.pants_config_files
        sanitized == SanitizeGlobs(<<>>, potentially_absolute_globs, buildroot)
    IN  OrderedSetUpdate(sanitized,
            FixedGlobs \o bootstrap_options.pantsd_invalidation_globs)

\* The path lists tried for sys.path and --pythonpath: none; one of /r (the
\* build root), /r/s/p, /r/s/p/, /o, /, /r/..x, /r/../o and /r/./s/p; or
\* /r/s/p twice; or /r/s/p and /r/t.
PathLists ==
    { <<>>,
      <<<<"/", "r">>>>,
      <<<<"/", "r", "/", "s", "/", "p">>>>,
      <<<<"/", "r", "/", "s", "/", "p", "/">>>>,
      <<<<"/", "o">>>>,
      <<<<"/">>>>,
      <<<<"/", "r", "/", ".", ".", "x">>>>,
      <<<<"/", "r", "/", ".", ".", "/", "o">>>>,
      <<<<"/", "r", "/", ".", "/", "s", "/", "p">>>>,
      <<<<"/", "r", "/", "s", "/", "p">>, <<"/", "r", "/", "s", "/", "p">>>>,
      <<<<"/", "r", "/", "s", "/", "p">>, <<"/", "r", "/", "t">>>> }

\* The --pants-config-files lists tried.
ConfigFileLists ==
    { <<>>,
      <<<<"/", "r", "/", "p", "a", "n", "t", "s", ".", "t", "o", "m", "l">>>>,
      <<<<"/", "r", "/", "s", "/", "p">>, <<"/", "o", "/", "p", "a", "n", "t", "s", ".", "t", "o", "m", "l">>>> }

\* The --pantsd-invalidation-globs lists tried: none, one new glob, and a
\* list that repeats a fixed glob and a sanitized path.
UserGlobLists ==
    { <<>>,
      <<<<"s", "r", "c", "/", "*", "*">>>>,
      <<<<"!", "*", ".", "p", "y", "c">>, <<"s", "/", "p">>, <<"s", "/", "p">>>> }

GlobsInputs ==
    { [fn |-> "compute_pantsd_invalidation_globs", buildroot |-> r,
       sys_path |-> sp,
       bootstrap_options |-> [pythonpath |-> pp, pants_config_files |-> cf,
                              pantsd_invalidation_globs |-> ug],
       outcome |-> NoOutcome] :
        r \in BuildRoots, sp \in PathLists, pp \in PathLists,
        cf \in ConfigFileLists, ug \in UserGlobLists }

InitGlobs ==
    /\ ProcessStart
    /\ call \in GlobsInputs

\* The call of compute_pantsd_invalidation_globs is made.
CallComputePantsdInvalidationGlobs ==
    /\ call.fn = "compute_pantsd_invalidation_globs"
    /\ call.outcome = NoOutcome
    /\ call' = [call EXCEPT !.outcome =
                    Returned(compute_pantsd_invalidation_globs(call.buildroot,
                                 call.sys_path, call.bootstrap_options))]
    /\ UNCHANGED processVars

NextGlobs == CallComputePantsdInvalidationGlobs

SpecGlobs == InitGlobs /\ [][NextGlobs]_vars

\* The call of compute_pantsd_invalidation_globs has been made.
GlobsDone ==
    call.fn = "compute_pantsd_invalidation_globs" /\ call.outcome # NoOutcome

\* The entries of the potentially-absolute set of the call, in source order.
PotentiallyAbsolute ==
    call.sys_path \o call.bootstrap_options.pythonpath
                  \o call.bootstrap_options.pants_config_files

\* path, once normalized, lies strictly below root.
StrictlyBelow(path, root) ==
    LET p == NormSegments(Segments(path), <<>>)
        r == NormSegments(Segments(root), <<>>)
    IN  Len(p) > Len(r) /\ SubSeq(p, 1, Len(r)) = r

\* The segments of a path strictly below root, from root on.
SegmentsBelow(path, root) ==
    LET p == NormSegments(Segments(path), <<>>)
        r == NormSegments(Segments(root), <<>>)
    IN  SubSeq(p, Len(r) + 1, Len(p))

\* C11: an entry of the potentially-absolute set is dropped exactly if it is
\* the build root or lies outside it: every entry strictly below the build
\* root, whatever its segments are named, has its relative path and that
\* path followed by "/**" in the result, and everything in the result is
\* such a contribution, a fixed glob or one of the user's globs.
C11_DroppedIffRootOrOutside ==
    GlobsDone =>
        LET result == call.outcome.value
            root == call.buildroot
            contributions ==
                UNION { { JoinPath(SegmentsBelow(PotentiallyAbsolute[i], root)),
                          JoinPath(SegmentsBelow(PotentiallyAbsolute[i], root))
                              \o <<"/", "*", "*">> } :
                        i \in { k \in DOMAIN PotentiallyAbsolute :
                                  StrictlyBelow(PotentiallyAbsolute[k], root) } }
        IN  /\ \A c \in contributions : Member(c, result)
            /\ \A i \in DOMAIN result :
                   \/ result[i] \in contributions
                   \/ Member(result[i], FixedGlobs)
                   \/ Member(result[i],
                             call.bootstrap_options.pantsd_invalidation_globs)

\* C11, the half that the code keeps: nothing but the contributions of
\* entries strictly below the build root, the fixed globs and the user's
\* globs is in the result, and an entry strictly below the build root whose
\* first segment from the root on does not begin with ".." contributes both
\* of its globs.
C11_PlainDescendantsContribute ==
    GlobsDone =>
        LET result == call.outcome.value
            root == call.buildroot
        IN  \A i \in DOMAIN PotentiallyAbsolute :
                LET e == PotentiallyAbsolute[i]
                IN  (/\ StrictlyBelow(e, root)
                     /\ ~startswith(Head(SegmentsBelow(e, root)), <<".", ".">>))
                    => /\ Member(JoinPath(SegmentsBelow(e, root)), result)
                       /\ Member(JoinPath(SegmentsBelow(e, root))
                                     \o <<"/", "*", "*">>, result)

\* A call whose --pythonpath holds /r/..x, strictly below the build root /r,
\* has returned.
C11_DottedDescendantCall ==
    /\ GlobsDone
    /\ call.buildroot = <<"/", "r">>
    /\ Member(<<"/", "r", "/", ".", ".", "x">>,
              call.bootstrap_options.pythonpath)

\* The globs of an entry as the code keeps them: both globs of an entry
\* strictly below the build root whose first segment from the root on does
\* not begin with "..", none of any other entry.
KeptGlobs(entry, root) ==
    IF /\ StrictlyBelow(entry, root)
       /\ ~startswith(Head(SegmentsBelow(entry, root)), <<".", ".">>)
    THEN << JoinPath(SegmentsBelow(entry, root)),
            JoinPath(SegmentsBelow(entry, root)) \o <<"/", "*", "*">> >>
    ELSE <<>>

\* The globs of the entries of a list, concatenated.
RECURSIVE AllKeptGlobs(_, _)
AllKeptGlobs(entries, root) ==
    IF entries = <<>>
    THEN <<>>
    ELSE KeptGlobs(Head(entries), root) \o AllKeptGlobs(Tail(entries), root)

\* The first n elements of seq, each at its first occurrence only.
RECURSIVE FirstOccurrences(_, _)
FirstOccurrences(seq, n) ==
    IF n = 0
    THEN <<>>
    ELSE IF \E j \in 1..(n - 1) : seq[j] = seq[n]
    THEN FirstOccurrences(seq, n - 1)
    ELSE Append(FirstOccurrences(seq, n - 1), seq[n])

\* C12: the result of compute_pantsd_invalidation_globs holds no string
\* twice; it is, in first-occurrence order, the globs of the kept entries of
\* sys.path, then of --pythonpath, then of the config files, then the four
\* fixed globs, then the user's globs; the four fixed globs are in every
\* result.
C12_OrderedWithoutDuplicates ==
    GlobsDone =>
        LET result == call.outcome.value
            all == AllKeptGlobs(PotentiallyAbsolute, call.buildroot)
                       \o << <<"!", "*", ".", "p", "y", "c">> >>
                       \o SubSeq(FixedGlobs, 2, 4)
                       \o call.bootstrap_options.pantsd_invalidation_globs
        IN  /\ \A i, j \in DOMAIN result : result[i] = result[j] => i = j
            /\ result = FirstOccurrences(all, Len(all))
            /\ \A k \in DOMAIN FixedGlobs : Member(FixedGlobs[k], result)

\* A call with /r/s/p both in sys.path and among the config files, and with
\* user globs that repeat a fixed glob, has returned for the build root /r.
C12_Witness ==
    /\ GlobsDone
    /\ call.buildroot = <<"/", "r">>
    /\ Member(<<"/", "r", "/", "s", "/", "p">>, call.sys_path)
    /\ Member(<<"/", "r", "/", "s", "/", "p">>,
              call.bootstrap_options.pants_config_files)
    /\ Member(<<"!", "*", ".", "p", "y", "c">>,
              call.bootstrap_options.pantsd_invalidation_globs)
    /\ Member(<<"s", "/", "p">>, call.outcome.value)

\* ------------------------------------------------- several calling threads

\* The bootstrap input the threads pass: well-formed arguments, the running
\* version, valid global options, the search path /r/a.
ThreadInputs ==
    { b \in BootstrapInputs :
        /\ b.args = <<"./pants", "list">>
        /\ b.pants_version = pants_version
        /\ b.valid
        /\ b.pythonpath = <<"/r/a">> }

\* Each thread calls get once; a thread switch may come between any two
\* steps of get, which takes no lock.  Nobody calls reset.
NextThreads ==
    /\ \E t \in Threads :
          \/ \E b \in ThreadInputs : th[t].op = "none" /\ StartGet(t, b)
          \/ GetCheck(t)
          \/ GetInit(t)
          \/ GetSetupPath(t)
          \/ GetSetupLoad(t)
          \/ GetStore(t)
          \/ GetReturn(t)
    /\ UNCHANGED call

SpecThreads == Init /\ [][NextThreads]_vars

\* Each thread makes one call, of get or of reset.
NextThreadsReset ==
    /\ \E t \in Threads :
          \/ \E b \in ThreadInputs : th[t].op = "none" /\ StartGet(t, b)
          \/ GetCheck(t)
          \/ GetInit(t)
          \/ GetSetupPath(t)
          \/ GetSetupLoad(t)
          \/ GetStore(t)
          \/ GetReturn(t)
          \/ th[t].op = "none" /\ reset(t)
    /\ UNCHANGED call

SpecThreadsReset == Init /\ [][NextThreadsReset]_vars

\* C13 as claimed: without reset and with no collaborator failing, the
\* activator is invoked at most once however the get calls of the threads
\* interleave.
C13_AtMostOneActivation ==
    failure = None => activatorCalls <= 1

\* C13: without reset, the activator is invoked at most once for each get
\* that found the cache empty, and only by such a get; so it is invoked at
\* most once when at most one get found the cache empty.
C13_OneActivationPerEmptyGet ==
    /\ activatorCalls <= emptyGets
    /\ emptyGets <= opsStarted
    /\ \A t \in Threads :
           (th[t].running /\ th[t].gpc \in {"init", "setup", "load", "store"})
               => th[t].snap.cached_build_config = None
    /\ emptyGets <= 1 => activatorCalls <= 1

\* Two threads have both found the cache empty and both had the activator
\* build a configuration, with no collaborator failing.
C13_Witness ==
    /\ failure = None
    /\ activatorCalls = 2
    /\ \E t, u \in Threads :
          /\ t # u
          /\ th[t].gpc = "store"
          /\ th[u].gpc = "store"

\* C14 as claimed: without reset the cache is written at most once and every
\* get returns the value written first, so the value a get has returned is
\* the value the cache holds from then on.
C14_FirstWriterWins ==
    \A t \in Threads :
        (Ended(t, "get") /\ th[t].outcome.kind = "returned")
            => th[t].outcome.value = cached_build_config

\* C14: without reset, every get that returns returns a BuildConfiguration
\* that the activator built for one of the gets, the cache once set stays
\* set, and when at most one get found the cache empty every get returns the
\* one value the cache holds; gets that overlap while the cache is empty may
\* each write it and may return different values.
C14_ReturnsWhatTheCacheHolds ==
    /\ \A t \in Threads :
           (Ended(t, "get") /\ th[t].outcome.kind = "returned")
               => /\ th[t].outcome.value.kind = "BuildConfiguration"
                  /\ th[t].outcome.value.id \in 1..activatorCalls
                  /\ cached_build_config # None
                  /\ emptyGets <= 1 => th[t].outcome.value = cached_build_config
    /\ cached_build_config # None =>
           /\ cached_build_config.kind = "BuildConfiguration"
           /\ cached_build_config.id \in 1..activatorCalls

\* Two gets that overlapped while the cache was empty have returned
\* different configurations.
C14_Witness ==
    \E t, u \in Threads :
        /\ Ended(t, "get") /\ th[t].outcome.kind = "returned"
        /\ Ended(u, "get") /\ th[u].outcome.kind = "returned"
        /\ th[t].outcome.value # th[u].outcome.value
        /\ th[u].outcome.value = cached_build_config

\* C15: a get that completes without error returns a BuildConfiguration,
\* never None, whatever a reset does while the get is executing.
C15_InFlightGetReturnsConfiguration ==
    \A t \in Threads :
        (Ended(t, "get") /\ th[t].outcome.kind = "returned")
            => th[t].outcome.value.kind = "BuildConfiguration"

\* A get that built a configuration and stored it has returned None, the
\* cache having been reset before line 44 read it again.
C15_ResetBetweenStoreAndReturn ==
    \E t, u \in Threads :
        /\ Ended(t, "get") /\ th[t].outcome.kind = "returned"
        /\ th[t].outcome.value = None
        /\ th[t].snap.cached_build_config = None
        /\ Ended(u, "reset")

\* ------------------------------------------------ search-path extension

\* Bootstrap inputs whose --pythonpath repeats a path, names a path sys.path
\* holds from the start, or is empty, besides plain ones.
SearchPathInputs ==
    { [kind |-> "OptionsBootstrapper", args |-> <<"./pants", "list">>,
       pants_version |-> pants_version, pythonpath |-> p,
       plugins |-> <<"plug1">>,
       backend_packages |-> <<"pants.backend.python">>, valid |-> TRUE] :
        p \in { <<>>, <<"/r/a">>, <<"/r/a", "/r/a">>,
                <<"/r/b", "/r/a", "/r/b">>,
                <<"/usr/lib/python", "/r/b">> } }

\* One control thread calls get and reset, one call after the other.
NextSearchPath ==
    /\ \E t \in SeqThreads :
          \/ \E b \in SearchPathInputs : StartGet(t, b)
          \/ GetCheck(t)
          \/ GetInit(t)
          \/ GetSetupPath(t)
          \/ GetSetupLoad(t)
          \/ GetStore(t)
          \/ GetReturn(t)
          \/ reset(t)
    /\ UNCHANGED call

SpecSearchPath == Init /\ [][NextSearchPath]_vars

\* The get of thread t found the cache empty and its setup has run the loop
\* over pythonpath.
ExtendedSearchPath(t) ==
    /\ th[t].op = "get"
    /\ th[t].snap # None
    /\ th[t].snap.cached_build_config = None
    /\ \/ th[t].running /\ th[t].gpc \in {"load", "store", "return"}
       \/ ~th[t].running /\ activatorCalls > th[t].snap.activator

\* C16: in a sequential run of get and reset calls, sys.path never holds a
\* path twice, keeps the entries it started with in front, and holds every
\* path of the pythonpath of a get whose setup has run its loop.
C16_SearchPathIdempotent ==
    /\ \A i, j \in DOMAIN sys_path : sys_path[i] = sys_path[j] => i = j
    /\ Len(sys_path) >= Len(InitialSysPath)
    /\ SubSeq(sys_path, 1, Len(InitialSysPath)) = InitialSysPath
    /\ \A t \in SeqThreads :
           ExtendedSearchPath(t) =>
               \A k \in DOMAIN th[t].inp.pythonpath :
                   Member(th[t].inp.pythonpath[k], sys_path)

\* After a reset, a get whose pythonpath repeats /r/b and names /r/a again
\* has run setup's loop on a sys.path that held /r/a already.
C16_Witness ==
    \E t \in SeqThreads :
        /\ ExtendedSearchPath(t)
        /\ th[t].inp.pythonpath = <<"/r/b", "/r/a", "/r/b">>
        /\ Member("/r/a", th[t].snap.sys_path)
        /\ th[t].prev.op = "reset"

\* C17: a get that found the cache empty first calls the resolver, then
\* extends sys.path, then calls the activator with the resolved working set
\* and the requested plugins and backend packages, and writes the cache only
\* after the activator has returned: at each position of such a get, exactly
\* the steps before that position have been made, and the cache holds
\* nothing until the configuration the activator returned is stored.
C17_StepsInFixedOrder ==
    \A t \in SeqThreads :
        (th[t].running /\ th[t].gpc \in {"init", "setup", "load", "store", "return"}
            /\ th[t].snap.cached_build_config = None) =>
        LET r == th[t]
            resolved == resolverCalls = r.snap.resolver + 1
                            /\ r.working_set = resolve(r.inp)
            extended == \A k \in DOMAIN r.inp.pythonpath :
                            Member(r.inp.pythonpath[k], sys_path)
            activated == /\ activatorCalls = r.snap.activator + 1
                         /\ r.built.kind = "BuildConfiguration"
                         /\ r.built.id = activatorCalls
                         /\ r.built.working_set = resolve(r.inp)
                         /\ r.built.plugins = r.inp.plugins
                         /\ r.built.backend_packages = r.inp.backend_packages
        IN  CASE r.gpc = "init" ->
                    /\ resolverCalls = r.snap.resolver
                    /\ sys_path = r.snap.sys_path
                    /\ activatorCalls = r.snap.activator
                    /\ cached_build_config = None
              [] r.gpc = "setup" ->
                    /\ resolved
                    /\ sys_path = r.snap.sys_path
                    /\ activatorCalls = r.snap.activator
                    /\ cached_build_config = None
              [] r.gpc = "load" ->
                    /\ resolved
                    /\ extended
                    /\ activatorCalls = r.snap.activator
                    /\ cached_build_config = None
              [] r.gpc = "store" ->
                    /\ resolved
                    /\ extended
                    /\ activated
                    /\ cached_build_config = None
              [] r.gpc = "return" ->
                    /\ resolved
                    /\ extended
                    /\ activated
                    /\ cached_build_config = r.built

\* A get that found the cache empty has called the resolver, has appended to
\* sys.path and has had the activator return, and has not written the cache
\* yet.
C17_Witness ==
    \E t \in SeqThreads :
        /\ th[t].running
        /\ th[t].gpc = "store"
        /\ th[t].snap.cached_build_config = None
        /\ sys_path # th[t].snap.sys_path
        /\ cached_build_config = None

\* The first create of thread t's create_with_build_config raised
\* UnknownFlagsError, so the call entered the except block of line 199.
HitUnknownFlags(t) ==
    /\ th[t].op = "cwbc"
    /\ th[t].err # None
    /\ th[t].err.type = "UnknownFlagsError"

\* C18: in a sequential run, a create_with_build_config call whose create
\* raised UnknownFlagsError calls create exactly twice, first with the
\* original arguments and then with the one placeholder argument, both times
\* with the same BuildConfiguration, and has the activator invoked at most
\* once, and not at all if the cache held a value when the call began.
C18_RecoveryReusesCachedConfiguration ==
    \A t \in SeqThreads :
        HitUnknownFlags(t) =>
            /\ activatorCalls <= th[t].entry.activator + 1
            /\ th[t].entry.cached_build_config # None =>
                   activatorCalls = th[t].entry.activator
            /\ Len(th[t].creates) \in {1, 2}
            /\ th[t].creates[1].args = th[t].inp.args
            /\ th[t].creates[1].build_config.kind = "BuildConfiguration"
            /\ ~th[t].running => Len(th[t].creates) = 2
            /\ Len(th[t].creates) = 2 =>
                   /\ th[t].creates[2].args = <<"dummy_first_arg">>
                   /\ th[t].creates[2].build_config = th[t].creates[1].build_config

\* A create_with_build_config call that began with the cache empty has hit
\* an UnknownFlagsError, has made its second call of create and has ended.
C18_Witness ==
    \E t \in SeqThreads :
        /\ HitUnknownFlags(t)
        /\ ~th[t].running
        /\ Len(th[t].creates) = 2
        /\ th[t].entry.cached_build_config = None
        /\ activatorCalls = th[t].entry.activator + 1

\* The call of thread t has ended with the error that `who`, the resolver
\* or the activator, raised in its get.
GetFailedIn(t, who) ==
    /\ th[t].op \in {"get", "cwbc"}
    /\ ~th[t].running
    /\ th[t].outcome.kind = "raised"
    /\ th[t].outcome.error.raisedBy = who

\* Thread t is in, or has ended, a call that follows one that failed in the
\* activator and was given the same pythonpath.
RetryAfterActivatorFailure(t) ==
    /\ th[t].op \in {"get", "cwbc"}
    /\ th[t].prev # None
    /\ th[t].prev.error # None
    /\ th[t].prev.error.raisedBy = "load_backends_and_plugins"
    /\ th[t].prev.pythonpath = th[t].inp.pythonpath

\* C19: in a sequential run, a get in which the resolver failed leaves the
\* cache and sys.path as it found them; a get in which the activator failed
\* leaves the cache unset and sys.path extended by the paths of its
\* pythonpath that sys.path lacked; and the call that retries with the same
\* pythonpath appends nothing to sys.path.
C19_FailureFrame ==
    \A t \in SeqThreads :
        /\ GetFailedIn(t, "resolve") =>
               /\ cached_build_config = None
               /\ th[t].snap.cached_build_config = None
               /\ sys_path = th[t].snap.sys_path
        /\ GetFailedIn(t, "load_backends_and_plugins") =>
               /\ cached_build_config = None
               /\ Len(sys_path) >= Len(th[t].snap.sys_path)
               /\ SubSeq(sys_path, 1, Len(th[t].snap.sys_path)) = th[t].snap.sys_path
               /\ \A k \in DOMAIN th[t].inp.pythonpath :
                      Member(th[t].inp.pythonpath[k], sys_path)
               /\ \A i \in DOMAIN sys_path :
                      i > Len(th[t].snap.sys_path) =>
                          /\ Member(sys_path[i], th[t].inp.pythonpath)
                          /\ ~Member(sys_path[i], th[t].snap.sys_path)
        /\ RetryAfterActivatorFailure(t) => sys_path = th[t].entry.sys_path

\* A get failed in the activator after it had appended to sys.path, and the
\* get that retried with the same pythonpath has built a configuration.
C19_Witness ==
    \E t \in SeqThreads :
        /\ RetryAfterActivatorFailure(t)
        /\ Ended(t, "get")
        /\ th[t].outcome.kind = "returned"
        /\ activatorCalls = th[t].entry.activator + 1
        /\ Member("/r/a", sys_path)

\* ------------------------------------------------- failure inside recovery

\* Bootstrap inputs with a flag no scope knows, the running version, and
\* global options that pass or fail validation.
RecoveryInputs ==
    { b \in BootstrapInputs :
        /\ b.args = <<"./pants", "--bogus", "list">>
        /\ b.pants_version = pants_version
        /\ b.pythonpath = <<"/r/a">> }

\* The control thread calls create_with_build_config once and each other
\* thread calls reset once; a thread switch may come between any two steps.
NextRecovery ==
    /\ \E t \in Threads :
          \/ \E b \in RecoveryInputs, rz \in BOOLEAN :
                 /\ t \in SeqThreads
                 /\ th[t].op = "none"
                 /\ StartCwbc(t, b, rz)
          \/ GetCheck(t)
          \/ GetInit(t)
          \/ GetSetupPath(t)
          \/ GetSetupLoad(t)
          \/ GetStore(t)
          \/ GetReturn(t)
          \/ CwbcCreate(t)
          \/ HandlerCreate(t)
          \/ HandlerHelp(t)
          \/ HandlerExit(t)
          \/ CwbcReturn(t)
          \/ /\ t \notin SeqThreads
             /\ th[t].op = "none"
             /\ reset(t)
    /\ UNCHANGED call

SpecRecovery == Init /\ [][NextRecovery]_vars

\* The create_with_build_config of thread t hit an UnknownFlagsError and has
\* ended by an error raised in the get of the except block (line 200).
RecoveryGetRaised(t) ==
    /\ HitUnknownFlags(t)
    /\ ~th[t].running
    /\ Len(th[t].creates) = 1
    /\ th[t].outcome.kind = "raised"
    /\ th[t].outcome.error.raisedBy \in {"resolve", "load_backends_and_plugins"}

\* The create_with_build_config of thread t hit an UnknownFlagsError, and
\* the create of the except block (line 206) raised.
RecoveryCreateRaised(t) ==
    /\ HitUnknownFlags(t)
    /\ Len(th[t].creates) = 2
    /\ create(no_arg_bootstrapper(th[t].inp),
              th[t].creates[2].build_config).outcome.kind = "raised"

\* C20: when, in the handling of an UnknownFlagsError, the get or the create
\* of the except block raises, the call ends with that error whether raise_
\* is set or not, the help printer is not called, and the error the caller
\* receives is not the UnknownFlagsError; the help printer is called only
\* after the create of the except block has returned.
C20_RecoveryFailurePropagates ==
    \A t \in Threads :
        /\ RecoveryGetRaised(t) =>
               /\ th[t].helps = <<>>
               /\ th[t].outcome.error # th[t].err
               /\ th[t].outcome.error.type # "UnknownFlagsError"
        /\ RecoveryCreateRaised(t) =>
               /\ ~th[t].running
               /\ th[t].helps = <<>>
               /\ th[t].outcome =
                      create(no_arg_bootstrapper(th[t].inp),
                             th[t].creates[2].build_config).outcome
               /\ th[t].outcome.error # th[t].err
               /\ th[t].outcome.error.type # "UnknownFlagsError"
        /\ (HitUnknownFlags(t) /\ th[t].helps # <<>>) =>
               /\ Len(th[t].creates) = 2
               /\ ~RecoveryCreateRaised(t)

\* A non-strict create_with_build_config has hit an UnknownFlagsError, the
\* create of its except block has raised, and the call has ended.
C20_Witness ==
    \E t \in Threads :
        /\ RecoveryCreateRaised(t)
        /\ ~th[t].raise_
        /\ ~th[t].running
        /\ th[t].outcome.kind = "raised"

====
